---- MODULE Spec2Model ----
(***************************************************************************)
(* Model of ppt_generator.py: generate_with_llama, split_into_bullets,     *)
(* add_slide and generate_eda_report, the function that plans and emits    *)
(* the slide deck of a one-column EDA report.                              *)
(*                                                                         *)
(* Text is modelled as Python sees it after text.split('\n'): a non-empty  *)
(* sequence of raw lines.  A raw line is a sequence of atoms; the atom " " *)
(* is one whitespace character, every other atom is a run of characters    *)
(* that neither starts nor ends with whitespace.  Bullets and titles are   *)
(* strings.                                                                *)
(***************************************************************************)
EXTENDS Integers, Sequences, FiniteSets, TLC

VARIABLES
    csv,                  \* what pd.read_csv meets: "unreadable", "empty", "ok"
    columns,              \* df.columns
    is_numeric,           \* pd.api.types.is_numeric_dtype(df[c]) for each column
    col,                  \* the column selected for analysis
    plot_type,            \* the plot type selected in the front-end
    min_slides,           \* the minimum number of slides asked for
    user_prompt,          \* the free-text prompt, a sequence of characters
    ollama,               \* the text service: "down" (every call raises) or "up"
    pc,                   \* position in generate_eda_report
    prs,                  \* prs.slides, in the order the slides were added
    slide_titles,         \* the list slide_titles
    extra_slides_needed,  \* the local of the same name
    idx,                  \* position of the comparison loop in other_cols
    extra_n,              \* length of the range of the extra-slides loop
    extra_i,              \* iterations of the extra-slides loop done
    text,                 \* the text last returned by generate_with_llama
    raised,               \* whether that call went through the except branch
    points,               \* the list last returned by split_into_bullets
    result                \* the pair returned by generate_eda_report

vars == <<csv, columns, is_numeric, col, plot_type, min_slides, user_prompt,
          ollama, pc, prs, slide_titles, extra_slides_needed, idx, extra_n,
          extra_i, text, raised, points, result>>

\* ------------------------------------------------------------------ bounds

MaxCols == 3

MaxMinSlides == 8

MaxLines == 7

\* ------------------------------------------------------- program constants

\* st.number_input("Minimum Number of Slides", min_value=3, ...)
MinMinSlides == 3

\* split_into_bullets(text, min_points=5, max_points=6)
min_points_default == 5

max_points_default == 6

max_points_per_slide == 6

\* ----------------------------------------------------------- str helpers

Min(a, b) == IF a < b THEN a ELSE b

RECURSIVE LStrip(_)
\* str.lstrip() on one raw line
LStrip(line) ==
    IF line # <<>> /\ Head(line) = " " THEN LStrip(Tail(line)) ELSE line

RECURSIVE RStrip(_)
\* str.rstrip() on one raw line
RStrip(line) ==
    IF line # <<>> /\ line[Len(line)] = " "
    THEN RStrip(SubSeq(line, 1, Len(line) - 1))
    ELSE line

RECURSIVE JoinAtoms(_)
\* the string a raw line stands for
JoinAtoms(line) ==
    IF line = <<>> THEN "" ELSE Head(line) \o JoinAtoms(Tail(line))

\* line.strip(), as a string
Strip(line) == JoinAtoms(RStrip(LStrip(line)))

HasInk(line) == \E i \in 1..Len(line) : line[i] # " "

\* str.strip() on a whole text: leading and trailing whitespace, newlines
\* included, goes; what is left is split at the newlines that remain
StripText(t) ==
    LET inked == {i \in 1..Len(t) : HasInk(t[i])}
        first == CHOOSE i \in inked : \A j \in inked : i <= j
        last  == CHOOSE i \in inked : \A j \in inked : j <= i
    IN  IF inked = {} THEN << <<>> >>
        ELSE IF first = last THEN << RStrip(LStrip(t[first])) >>
        ELSE << LStrip(t[first]) >> \o SubSeq(t, first + 1, last - 1)
             \o << RStrip(t[last]) >>

Upper == <<"A", "B", "C", "D", "E", "F", "G", "H", "I", "J", "K", "L", "M",
           "N", "O", "P", "Q", "R", "S", "T", "U", "V", "W", "X", "Y", "Z">>

Lower == <<"a", "b", "c", "d", "e", "f", "g", "h", "i", "j", "k", "l", "m",
           "n", "o", "p", "q", "r", "s", "t", "u", "v", "w", "x", "y", "z">>

\* the lower-case form of each upper-case letter
LowerOf ==
    [c \in {Upper[k] : k \in 1..Len(Upper)} |->
        Lower[CHOOSE k \in 1..Len(Upper) : Upper[k] = c]]

\* str.lower()
ToLower(s) ==
    [i \in 1..Len(s) |->
        IF s[i] \in DOMAIN LowerOf THEN LowerOf[s[i]] ELSE s[i]]

\* sub in s
Contains(sub, s) ==
    \E i \in 0..(Len(s) - Len(sub)) : SubSeq(s, i + 1, i + Len(sub)) = sub

DefaultPhrase ==
    <<"d", "e", "f", "a", "u", "l", "t", " ", "a", "n", "a", "l", "y", "s",
      "i", "s", " ", "o", "f", " ", "o", "n", "e", " ", "c", "o", "l", "u",
      "m", "n", " ", "v", "s", " ", "o", "t", "h", "e", "r", "s">>

SummaryWord == <<"s", "u", "m", "m", "a", "r", "y">>

\* ------------------------------------------------- generate_with_llama

\* the text of the except branch, split at its newlines
LlamaErrorText ==
    << <<"Analysis failed due to error.">>,
       <<"CSV data could not be processed.">>,
       <<"Please verify file integrity.">>,
       <<"Contact support for assistance.">>,
       <<"This is an error state.">> >>

\* texts the service answers with in the model: too few lines, and enough
ShortReply ==
    << <<" ", "Sales rose.">>, <<>>, <<"Costs", " ", "fell.", " ">>, <<" ">> >>

LongReply ==
    << <<>>, <<" ", "Point one.">>, <<"Point two.">>, <<"Point three.", " ">>,
       <<>>, <<"Point four.">>, <<"Point five.">>, <<" ">> >>

Replies == {ShortReply, LongReply}

\* generate_with_llama: the pairs (text returned, except branch taken)
generate_with_llama(service) ==
    {[text |-> LlamaErrorText, raised |-> TRUE]}
    \cup (IF service = "up"
          THEN {[text |-> StripText(r), raised |-> FALSE] : r \in Replies}
          ELSE {})

\* --------------------------------------------------- split_into_bullets

CanonicalFailure ==
    <<"Insufficient data in CSV.", "Analysis cannot be completed.",
      "Please check CSV content.", "No insights can be derived.",
      "This is an error message.">>

\* [line.strip() for line in text.split('\n') if line.strip()]
NonEmptyLines(t) ==
    LET stripped == [i \in 1..Len(t) |-> Strip(t[i])]
    IN  SelectSeq(stripped, LAMBDA s : s # "")

\* random.randint(a, b): any integer of a..b
randint(a, b) == a..b

\* split_into_bullets with the bound tested by <= : five lines are too few
split_into_bullets_le(t, min_points, max_points) ==
    LET lines == NonEmptyLines(t)
    IN  IF lines = <<>> \/ Len(lines) <= min_points
        THEN {CanonicalFailure}
        ELSE {SubSeq(lines, 1, n) :
                 n \in randint(min_points, Min(max_points, Len(lines)))}

\* split_into_bullets without the fallback list: too few lines go through
split_into_bullets_nofallback(t, min_points, max_points) ==
    LET lines == NonEmptyLines(t)
    IN  {SubSeq(lines, 1, Min(max_points, Len(lines)))}

\* split_into_bullets: the lists it can return, one per random draw
split_into_bullets(t, min_points, max_points) ==
    LET lines == NonEmptyLines(t)
    IN  IF lines = <<>> \/ Len(lines) < min_points
        THEN {CanonicalFailure}
        ELSE {SubSeq(lines, 1, n) :
                 n \in randint(min_points, Min(max_points, Len(lines)))}

\* ------------------------------------------------------------ add_slide

\* the title-only slide built at lines 88-104 and 236-250 (layout 0, every
\* placeholder but the title removed)
TitleOnlySlide(title) ==
    [title |-> title, layout |-> 0, content |-> <<>>, chart |-> ""]

\* add_slide(prs, title, content, chart_path); chart = "" stands for None,
\* otherwise it names the figure saved at chart_path
add_slide(slides, title, content, chart) ==
    Append(slides,
           [title   |-> title,
            layout  |-> IF chart # "" THEN 5 ELSE 1,
            content |-> IF chart # "" THEN <<>> ELSE content,
            chart   |-> chart])

\* ------------------------------------------------- generate_eda_report

ColNames == <<"A", "B", "C", "D", "E">>

PlotTypes == {"Scatter", "Hexbin", "Box", "Bar"}

\* other_cols taken from the last column to the first
OtherColsReversed(cols, c) ==
    LET others == SelectSeq(cols, LAMBDA x : x # c)
    IN  [i \in 1..Len(others) |-> others[Len(others) + 1 - i]]

\* other_cols = [c for c in df.columns if c != col]
OtherCols(cols, c) == SelectSeq(cols, LAMBDA x : x # c)

PlotTitle(c, o) == "Comparison Plot: " \o c \o " vs " \o o

InsightsTitle(c, o) == "Comparison Insights: " \o c \o " vs " \o o

DetailTitle(c, o) == "Detailed Insights: " \o c \o " vs " \o o

ExtraTitle(i) == "Additional Analysis " \o ToString(i)

\* extra_slides_needed with >= for >
ExtraSlidesNeededGe(min, num_cols) == min >= 2 * num_cols

\* extra_slides_needed = min_slides > (2 * num_cols)
ExtraSlidesNeeded(min, num_cols) == min > 2 * num_cols

\* the test of line 115 with "summary" looked for in the prompt as typed
SummaryListedNoLower(prompt) ==
    /\ ToLower(prompt) # DefaultPhrase
    /\ Contains(SummaryWord, prompt)

\* the test of line 115
SummaryListed(prompt) ==
    /\ ToLower(prompt) # DefaultPhrase
    /\ Contains(SummaryWord, ToLower(prompt))

\* the test of line 213
SummaryRequested(prompt) ==
    /\ prompt # <<>>
    /\ ToLower(prompt) # DefaultPhrase
    /\ Contains(SummaryWord, ToLower(prompt))

\* slide_titles as lines 108-117 leave it
PlannedTitles(titles, c, others, extra, prompt) ==
    titles \o <<"Introduction to Analysis">>
    \o [i \in 1..Len(others) |-> PlotTitle(c, others[i])]
    \o [i \in 1..Len(others) |-> InsightsTitle(c, others[i])]
    \o [i \in 1..Len(others) |-> DetailTitle(c, others[i])]
    \o (IF extra THEN <<"Index of Slides">> ELSE <<>>)
    \o (IF SummaryListed(prompt) THEN <<"Summary of Findings">> ELSE <<>>)
    \o <<"Conclusion of Analysis">>

\* [f"{i + 1}. {title}" for i, title in enumerate(slide_titles[2:-1])]
NumberedEntries(titles) ==
    LET listed == SubSeq(titles, 3, Len(titles) - 1)
    IN  [i \in 1..Len(listed) |-> ToString(i) \o ". " \o listed[i]]

RECURSIVE AddOverviewSlides(_, _, _)
\* the loop of lines 120-123, from offset i on
AddOverviewSlides(slides, entries, i) ==
    IF i >= Len(entries) THEN slides
    ELSE AddOverviewSlides(
             add_slide(slides,
                       IF i = 0 THEN "Overview of Upcoming Slides"
                       ELSE "Overview of Upcoming Slides Continued",
                       SubSeq(entries, i + 1,
                              Min(i + max_points_per_slide, Len(entries))),
                       ""),
             entries, i + max_points_per_slide)

\* "\n".join(entries), split at its newlines again
JoinLines(entries) ==
    IF entries = <<>> THEN << <<>> >>
    ELSE [i \in 1..Len(entries) |-> <<entries[i]>>]

\* actual_plot_type never overridden
ActualPlotTypeKeep(numeric_col, numeric_other, requested) == requested

\* actual_plot_type as lines 136-170 leave it
ActualPlotType(numeric_col, numeric_other, requested) ==
    IF numeric_col /\ numeric_other THEN requested
    ELSE IF numeric_other THEN "Bar"
    ELSE IF numeric_col THEN "Bar"
    ELSE "Stacked Bar"

\* content_points of lines 188-195, the figures left out
ContentPoints(c, o, numeric_col, numeric_other) ==
    << "Rows analyzed. Total entries in CSV.",
       IF numeric_col /\ numeric_other
       THEN "Correlation. Shows " \o c \o " vs " \o o \o " link."
       ELSE c \o " type. Non-numeric data detected.",
       IF numeric_other THEN o \o " mean. Average from CSV data."
       ELSE o \o " unique. Distinct values counted.",
       IF numeric_other THEN o \o " min. Minimum value in CSV."
       ELSE o \o " top. Most frequent in CSV.",
       IF numeric_other THEN o \o " max. Maximum value in CSV."
       ELSE o \o " diversity. Variation in data.",
       IF numeric_col THEN c \o " stat. Numeric average from CSV."
       ELSE c \o " top. Top category in CSV." >>

\* current_slides with the cover counted a second time
CurrentSlidesPlusTwo(titles) == Len(titles) + 2

\* current_slides = len(slide_titles) + 1
CurrentSlides(titles) == Len(titles) + 1

\* len(range(min_slides - current_slides)) when current_slides < min_slides
ExtraCount(min, current) == IF current < min THEN min - current ELSE 0

\* ------------------------------------------------------------ the inputs

Range(f) == {f[i] : i \in DOMAIN f}

\* what the user may leave or type in the text area
UserPrompts ==
    { <<"D", "e", "f", "a", "u", "l", "t", " ", "a", "n", "a", "l", "y", "s",
        "i", "s", " ", "o", "f", " ", "o", "n", "e", " ", "c", "o", "l", "u",
        "m", "n", " ", "v", "s", " ", "o", "t", "h", "e", "r", "s">>,
      <<"A", "d", "d", " ", "S", "U", "M", "M", "A", "R", "Y", " ", "s", "l",
        "i", "d", "e">>,
      <<"U", "s", "e", " ", "m", "o", "r", "e", " ", "c", "h", "a", "r", "t",
        "s">>,
      <<>> }

NoResult == [success |-> FALSE, value |-> "none"]

\* the locals of generate_eda_report before its first statement
InitLocals ==
    /\ prs = <<>>
    /\ slide_titles = <<>>
    /\ extra_slides_needed = FALSE
    /\ idx = 1
    /\ extra_n = 0
    /\ extra_i = 0
    /\ text = << <<>> >>
    /\ raised = FALSE
    /\ points = <<>>
    /\ result = NoResult

\* a call generate_eda_report(csv_file, col, plot_type, min_slides, user_prompt)
InitInputs ==
    /\ csv \in {"unreadable", "empty", "ok"}
    /\ \E n \in 1..MaxCols : columns = SubSeq(ColNames, 1, n)
    /\ is_numeric \in [Range(columns) -> BOOLEAN]
    /\ col \in Range(columns)
    /\ plot_type \in PlotTypes
    /\ min_slides \in MinMinSlides..MaxMinSlides
    /\ user_prompt \in UserPrompts
    /\ pc = "read"
    /\ InitLocals

\* the calls on numeric columns with the first plot type, the service up
Init ==
    /\ InitInputs
    /\ ollama = "up"
    /\ plot_type = "Scatter"
    /\ \A c \in Range(columns) : is_numeric[c]

\* every mix of column types and plot types, the service down
InitClassify ==
    /\ InitInputs
    /\ ollama = "down"

inputs == <<csv, columns, is_numeric, col, plot_type, min_slides, user_prompt,
            ollama>>

\* ----------------------------------------------------------- the steps

\* lines 74-83
ReadCsv ==
    /\ pc = "read"
    /\ IF csv = "unreadable"
       THEN /\ result' = [success |-> FALSE, value |-> "Error reading CSV"]
            /\ pc' = "done"
       ELSE IF csv = "empty"
       THEN /\ result' = [success |-> FALSE, value |-> "CSV file is empty."]
            /\ pc' = "done"
       ELSE /\ pc' = "cover"
            /\ UNCHANGED result
    /\ UNCHANGED <<inputs, prs, slide_titles, extra_slides_needed, idx,
                   extra_n, extra_i, text, raised, points>>

\* lines 88-105: the cover slide, titled with the first line of the answer
Cover ==
    /\ pc = "cover"
    /\ \E g \in generate_with_llama(ollama) :
          LET cover_title == JoinAtoms(g.text[1])
          IN  /\ text' = g.text
              /\ raised' = g.raised
              /\ prs' = Append(prs, TitleOnlySlide(cover_title))
              /\ slide_titles' = <<cover_title>>
    /\ pc' = "overview"
    /\ UNCHANGED <<inputs, extra_slides_needed, idx, extra_n, extra_i,
                   points, result>>

\* lines 107-123: the planned titles and the overview slides
Overview ==
    /\ pc = "overview"
    /\ extra_slides_needed' = ExtraSlidesNeeded(min_slides, Len(columns))
    /\ slide_titles' = PlannedTitles(slide_titles, col,
                                     OtherCols(columns, col),
                                     extra_slides_needed', user_prompt)
    /\ prs' = AddOverviewSlides(prs, NumberedEntries(slide_titles'), 0)
    /\ pc' = "intro"
    /\ UNCHANGED <<inputs, idx, extra_n, extra_i, text, raised, points,
                   result>>

\* lines 125-129, and the entry of the loop of line 132
Introduction ==
    /\ pc = "intro"
    /\ \E g \in generate_with_llama(ollama) :
       \E p \in split_into_bullets(g.text, min_points_default,
                                   max_points_default) :
          /\ text' = g.text
          /\ raised' = g.raised
          /\ points' = p
          /\ prs' = add_slide(prs, "Introduction to Analysis", p, "")
    /\ idx' = 1
    /\ pc' = IF OtherCols(columns, col) = <<>> THEN "index" ELSE "compare"
    /\ UNCHANGED <<inputs, slide_titles, extra_slides_needed, extra_n,
                   extra_i, result>>

\* lines 132-204: one pass of the loop over other_cols
Comparison ==
    /\ pc = "compare"
    /\ LET other_cols == OtherCols(columns, col)
           other_col  == other_cols[idx]
           kind == ActualPlotType(is_numeric[col], is_numeric[other_col],
                                  plot_type)
           stats == ContentPoints(col, other_col, is_numeric[col],
                                  is_numeric[other_col])
       IN  /\ \E g \in generate_with_llama(ollama) :
              \E p \in split_into_bullets(g.text, min_points_default,
                                          max_points_default) :
                 /\ text' = g.text
                 /\ raised' = g.raised
                 /\ points' = p
                 /\ prs' = add_slide(
                              add_slide(
                                 add_slide(prs, PlotTitle(col, other_col),
                                           <<>>, kind),
                                 InsightsTitle(col, other_col), stats, ""),
                              DetailTitle(col, other_col), p, "")
           /\ idx' = idx + 1
           /\ pc' = IF idx = Len(other_cols) THEN "index" ELSE "compare"
    /\ UNCHANGED <<inputs, slide_titles, extra_slides_needed, extra_n,
                   extra_i, result>>

\* lines 206-210
Index ==
    /\ pc = "index"
    /\ IF extra_slides_needed
       THEN \E p \in split_into_bullets(
                        JoinLines(NumberedEntries(slide_titles)),
                        min_points_default, max_points_default) :
               prs' = add_slide(prs, "Index of Slides", p, "")
       ELSE UNCHANGED prs
    /\ pc' = "summary"
    /\ UNCHANGED <<inputs, slide_titles, extra_slides_needed, idx, extra_n,
                   extra_i, text, raised, points, result>>

\* lines 212-222: the summary slide, then the count of the slides to add
Summary ==
    /\ pc = "summary"
    /\ IF SummaryRequested(user_prompt)
       THEN \E g \in generate_with_llama(ollama) :
            \E p \in split_into_bullets(g.text, min_points_default,
                                        max_points_default) :
               /\ text' = g.text
               /\ raised' = g.raised
               /\ points' = p
               /\ prs' = add_slide(prs, "Summary of Findings", p, "")
               /\ slide_titles' = Append(slide_titles, "Summary of Findings")
       ELSE UNCHANGED <<text, raised, points, prs, slide_titles>>
    /\ extra_n' = ExtraCount(min_slides, CurrentSlides(slide_titles'))
    /\ extra_i' = 0
    /\ pc' = IF extra_n' > 0 THEN "extra" ELSE "conclusion"
    /\ UNCHANGED <<inputs, extra_slides_needed, idx, result>>

\* lines 223-228: one pass of the loop over range(min_slides - current_slides)
Additional ==
    /\ pc = "extra"
    /\ \E g \in generate_with_llama(ollama) :
       \E p \in split_into_bullets(g.text, min_points_default,
                                   max_points_default) :
          /\ text' = g.text
          /\ raised' = g.raised
          /\ points' = p
          /\ prs' = add_slide(prs, ExtraTitle(extra_i + 1), p, "")
          /\ slide_titles' = Append(slide_titles, ExtraTitle(extra_i + 1))
    /\ extra_i' = extra_i + 1
    /\ pc' = IF extra_i + 1 = extra_n THEN "conclusion" ELSE "extra"
    /\ UNCHANGED <<inputs, extra_slides_needed, idx, extra_n, result>>

\* lines 230-234
Conclusion ==
    /\ pc = "conclusion"
    /\ \E g \in generate_with_llama(ollama) :
       \E p \in split_into_bullets(g.text, min_points_default,
                                   max_points_default) :
          /\ text' = g.text
          /\ raised' = g.raised
          /\ points' = p
          /\ prs' = add_slide(prs, "Conclusion of Analysis", p, "")
    /\ pc' = "thanks"
    /\ UNCHANGED <<inputs, slide_titles, extra_slides_needed, idx, extra_n,
                   extra_i, result>>

\* lines 236-250
ThankYou ==
    /\ pc = "thanks"
    /\ prs' = Append(prs, TitleOnlySlide("Thank You"))
    /\ pc' = "save"
    /\ UNCHANGED <<inputs, slide_titles, extra_slides_needed, idx, extra_n,
                   extra_i, text, raised, points, result>>

\* lines 252-264: the conversion succeeds or raises
SaveAndConvert ==
    /\ pc = "save"
    /\ \E converted \in BOOLEAN :
          result' = IF converted
                    THEN [success |-> TRUE, value |-> "odp_bytes"]
                    ELSE [success |-> FALSE, value |-> "Error converting to ODP"]
    /\ pc' = "done"
    /\ UNCHANGED <<inputs, prs, slide_titles, extra_slides_needed, idx,
                   extra_n, extra_i, text, raised, points>>

Next ==
    \/ ReadCsv
    \/ Cover
    \/ Overview
    \/ Introduction
    \/ Comparison
    \/ Index
    \/ Summary
    \/ Additional
    \/ Conclusion
    \/ ThankYou
    \/ SaveAndConvert

Spec == Init /\ [][Next]_vars

SpecClassify == InitClassify /\ [][Next]_vars

\* ------------------------------------- split_into_bullets on its own

\* raw lines a text is made of: empty, blank, padded, plain
RawLines ==
    { <<>>, <<" ">>, <<" ", "Alpha", " ", "one.", " ">>, <<"Beta.">> }

\* the list of lines 29-33 given back as a text, whole, cut short and extended
CanonicalText == [i \in 1..Len(CanonicalFailure) |-> <<CanonicalFailure[i]>>]

BulletTexts ==
    UNION {[1..n -> RawLines] : n \in 1..MaxLines}
    \cup {CanonicalText,
          SubSeq(CanonicalText, 1, Len(CanonicalText) - 1),
          Append(CanonicalText, <<"Beta.">>)}

InitBullets ==
    /\ text \in BulletTexts
    /\ pc = "split"
    /\ csv = "ok"
    /\ columns = <<"A">>
    /\ is_numeric = [c \in {"A"} |-> TRUE]
    /\ col = "A"
    /\ plot_type = "Scatter"
    /\ min_slides = MinMinSlides
    /\ user_prompt = <<>>
    /\ ollama = "up"
    /\ prs = <<>>
    /\ slide_titles = <<>>
    /\ extra_slides_needed = FALSE
    /\ idx = 1
    /\ extra_n = 0
    /\ extra_i = 0
    /\ raised = FALSE
    /\ points = <<>>
    /\ result = NoResult

\* a call split_into_bullets(text) with the default bounds
SplitIntoBullets ==
    /\ pc = "split"
    /\ points' \in split_into_bullets(text, min_points_default,
                                      max_points_default)
    /\ pc' = "split_done"
    /\ UNCHANGED <<inputs, prs, slide_titles, extra_slides_needed, idx,
                   extra_n, extra_i, text, raised, result>>

NextBullets == SplitIntoBullets

SpecBullets == InitBullets /\ [][NextBullets]_vars

\* ------------------------------------------------------------- the claims

\* a run on a readable, non-empty dataset has returned
Finished == pc = "done" /\ csv = "ok"

RECURSIVE Flatten(_)
Flatten(seqs) ==
    IF seqs = <<>> THEN <<>> ELSE Head(seqs) \o Flatten(Tail(seqs))

OverviewTitles ==
    {"Overview of Upcoming Slides", "Overview of Upcoming Slides Continued"}

\* the bullets of the overview slides of the deck, read across the pages
OverviewBullets ==
    LET pages == SelectSeq(prs, LAMBDA s : s.title \in OverviewTitles)
    IN  Flatten([i \in 1..Len(pages) |-> pages[i].content])

\* "1. title", "2. title", ...
Numbered(titles) ==
    [i \in 1..Len(titles) |-> ToString(i) \o ". " \o titles[i]]

HasSlide(title) == \E i \in 1..Len(prs) : prs[i].title = title

\* the j-th non-empty stripped line of a text, counted over its raw lines
UsableCount(t) == Cardinality({i \in 1..Len(t) : Strip(t[i]) # ""})

UsableLine(t, j) ==
    LET K == {i \in 1..Len(t) : Strip(t[i]) # ""}
    IN  Strip(t[CHOOSE k \in K : Cardinality({x \in K : x <= k}) = j])

IsPrefixOfUsable(list, t) ==
    /\ Len(list) <= UsableCount(t)
    /\ \A j \in 1..Len(list) : list[j] = UsableLine(t, j)

\* C3, as stated: split_into_bullets returns the canonical failure list if
\* and only if the text has fewer than 5 non-empty stripped lines, otherwise
\* a prefix of n of those lines, 5 <= n <= min(6, their number); the length
\* of the result is always 5 or 6.
C3_CanonicalIffTooFewLines ==
    pc = "split_done" =>
        /\ (points = CanonicalFailure <=> UsableCount(text) < 5)
        /\ UsableCount(text) >= 5 =>
              /\ Len(points) \in 5..Min(6, UsableCount(text))
              /\ IsPrefixOfUsable(points, text)
        /\ Len(points) \in {5, 6}

\* C3, amended: split_into_bullets returns the canonical failure list
\* whenever the text has fewer than 5 non-empty stripped lines, and
\* otherwise a prefix of n of those lines, 5 <= n <= min(6, their number)
\* (which is the canonical list again when the text's own first five lines
\* are its strings); the length of the result is always 5 or 6.
C3_CanonicalOrPrefix ==
    pc = "split_done" =>
        /\ UsableCount(text) < 5 => points = CanonicalFailure
        /\ UsableCount(text) >= 5 =>
              /\ Len(points) \in 5..Min(6, UsableCount(text))
              /\ IsPrefixOfUsable(points, text)
        /\ Len(points) \in {5, 6}

\* a text of six or more usable lines, blank and padded lines among them,
\* cut to its first six
C3_Witness ==
    /\ pc = "split_done"
    /\ UsableCount(text) >= 6
    /\ UsableCount(text) < Len(text)
    /\ Len(points) = 6
    /\ points # CanonicalFailure
    /\ IsPrefixOfUsable(points, text)

\* C1: a finished run on a readable, non-empty dataset leaves a deck of at
\* least min_slides slides, whatever the directive and whatever the text
\* service answered.
C1_AtLeastMinSlides == Finished => Len(prs) >= min_slides

\* extra slides were needed, and the deck came out at exactly the minimum
C1_Witness ==
    /\ Finished
    /\ HasSlide("Additional Analysis 1")
    /\ Len(prs) = min_slides

\* C5, as stated: when Additional Analysis slides are appended, their number
\* is min_slides minus the number of slides the deck holds without them,
\* they are numbered 1..m without gaps, and the finished deck holds exactly
\* min_slides slides.
C5_MinimumExact ==
    (Finished /\ extra_n > 0) =>
        LET added == SelectSeq(prs, LAMBDA s :
                         \E n \in 1..Len(prs) : s.title = ExtraTitle(n))
        IN  /\ Len(added) = min_slides - (Len(prs) - Len(added))
            /\ \A n \in 1..Len(added) : added[n].title = ExtraTitle(n)
            /\ Len(prs) = min_slides

\* C9, as stated: the Index of Slides slide is in the deck if and only if
\* min_slides > 2 * (number of columns - 1).
C9_IndexIffAboveOtherColumns ==
    Finished =>
        (HasSlide("Index of Slides") <=> min_slides > 2 * (Len(columns) - 1))

\* C9, amended: the Index of Slides slide is in the deck if and only if
\* min_slides > 2 * number of columns, the focus column counted.
C9_IndexIffAboveColumns ==
    Finished => (HasSlide("Index of Slides") <=> min_slides > 2 * Len(columns))

\* a deck with the index slide, one more slide asked for than twice the columns
C9_Witness ==
    /\ Finished
    /\ HasSlide("Index of Slides")
    /\ min_slides = 2 * Len(columns) + 1

\* C7: the Summary of Findings slide is in the deck if and only if the
\* directive, lower-cased, is not the default phrase and contains "summary";
\* the default directive never gives it; and it is in the deck exactly when
\* the overview lists it.
C7_SummaryIffDirective ==
    Finished =>
        \E lowered \in {ToLower(user_prompt)} :
        \E overview \in {OverviewBullets} :
            LET wanted == /\ lowered # DefaultPhrase
                          /\ \E i \in 1..(Len(lowered) - 6) :
                                [k \in 1..7 |-> lowered[i + k - 1]]
                                = <<"s", "u", "m", "m", "a", "r", "y">>
                listed == \E k \in 1..Len(overview) :
                             overview[k]
                             = ToString(k) \o ". Summary of Findings"
            IN  /\ HasSlide("Summary of Findings") <=> wanted
                /\ lowered = DefaultPhrase => ~HasSlide("Summary of Findings")
                /\ HasSlide("Summary of Findings") <=> listed

\* a directive that asks for the summary in capitals
C7_Witness ==
    /\ Finished
    /\ HasSlide("Summary of Findings")
    /\ ~Contains(SummaryWord, user_prompt)

\* C2, as stated: the bullets of the Index of Slides slide are the same
\* numbered entries, in the same order, as those of the overview slides.
C2_IndexEchoesOverview ==
    \A i \in 1..Len(prs) :
        prs[i].title = "Index of Slides" => prs[i].content = OverviewBullets

\* C8, as stated: the overview slides list, numbered 1..k, the title of
\* every slide of the deck but the cover and Thank You, in deck order, at
\* most 6 to a slide, on at least one slide.
C8_OverviewListsDeck ==
    Finished =>
        LET pages == SelectSeq(prs, LAMBDA s : s.title \in OverviewTitles)
            body  == SelectSeq(prs, LAMBDA s :
                         s.layout # 0 /\ s.title \notin OverviewTitles)
        IN  /\ Len(pages) >= 1
            /\ \A i \in 1..Len(pages) :
                  Len(pages[i].content) <= max_points_per_slide
            /\ OverviewBullets
               = Numbered([i \in 1..Len(body) |-> body[i].title])

\* C10: the deck of a finished run is, in this order: the cover (title
\* only), the overview slide or slides, Introduction to Analysis, for each
\* other column in dataset order its Comparison Plot, Comparison Insights
\* and Detailed Insights, then Index, Summary and Additional Analysis 1..m
\* where present, Conclusion of Analysis second to last, Thank You (title
\* only) last.
C10_FixedOrder ==
    Finished =>
        LET others == SelectSeq(columns, LAMBDA c : c # col)
            titles == [i \in 1..Len(prs) |-> prs[i].title]
            ov == Cardinality({i \in 1..Len(prs) :
                                  prs[i].title \in OverviewTitles})
            fixed == 1 + ov + 1 + 3 * Len(others)
                     + (IF HasSlide("Index of Slides") THEN 1 ELSE 0)
                     + (IF HasSlide("Summary of Findings") THEN 1 ELSE 0)
                     + 2
            m  == Len(prs) - fixed
            triple(o) ==
                << "Comparison Plot: " \o col \o " vs " \o o,
                   "Comparison Insights: " \o col \o " vs " \o o,
                   "Detailed Insights: " \o col \o " vs " \o o >>
            expected ==
                <<titles[1]>>
                \o [i \in 1..ov |->
                       IF i = 1 THEN "Overview of Upcoming Slides"
                       ELSE "Overview of Upcoming Slides Continued"]
                \o <<"Introduction to Analysis">>
                \o Flatten([j \in 1..Len(others) |-> triple(others[j])])
                \o (IF HasSlide("Index of Slides")
                    THEN <<"Index of Slides">> ELSE <<>>)
                \o (IF HasSlide("Summary of Findings")
                    THEN <<"Summary of Findings">> ELSE <<>>)
                \o [k \in 1..m |-> "Additional Analysis " \o ToString(k)]
                \o <<"Conclusion of Analysis", "Thank You">>
        IN  /\ ov >= 1
            /\ titles = expected
            /\ prs[1].layout = 0 /\ prs[1].content = <<>>
            /\ prs[Len(prs)].layout = 0 /\ prs[Len(prs)].content = <<>>

\* three columns, the middle one in focus, index and summary both present
C10_Witness ==
    /\ Finished
    /\ Len(columns) = 3
    /\ col = columns[2]
    /\ HasSlide("Index of Slides")
    /\ HasSlide("Summary of Findings")

\* C6: when a generate call raises or answers with fewer than 5 non-empty
\* lines, the slide it was made for is still added, with one of the two
\* fixed five-entry error lists; the run goes on to add every later slide,
\* ends with Conclusion and Thank You, and the only failures returned are
\* those of an unreadable or empty dataset and of the format conversion.
C6_GenerationFailureAbsorbed ==
    LET llama_error ==
            <<"Analysis failed due to error.",
              "CSV data could not be processed.",
              "Please verify file integrity.",
              "Contact support for assistance.", "This is an error state.">>
        insufficient ==
            <<"Insufficient data in CSV.", "Analysis cannot be completed.",
              "Please check CSV content.", "No insights can be derived.",
              "This is an error message.">>
        generated == SelectSeq(prs, LAMBDA s :
                         s.title \notin {"Index of Slides", "Thank You"})
        others == SelectSeq(columns, LAMBDA c : c # col)
        filled(title) ==
            \E i \in 1..Len(prs) :
                /\ prs[i].title = title
                /\ Len(prs[i].content) \in {5, 6}
    IN  /\ ( /\ csv = "ok"
             /\ pc \in {"compare", "index", "summary", "extra", "conclusion",
                        "thanks", "save", "done"}
             /\ raised \/ UsableCount(text) < 5 )
           => /\ generated[Len(generated)].content = points
              /\ points \in {llama_error, insufficient}
        /\ Finished =>
              /\ filled("Introduction to Analysis")
              /\ \A j \in 1..Len(others) :
                    filled("Detailed Insights: " \o col \o " vs " \o others[j])
              /\ \A k \in 1..extra_n :
                    filled("Additional Analysis " \o ToString(k))
              /\ Len(prs) >= 2
              /\ prs[Len(prs) - 1].title = "Conclusion of Analysis"
              /\ Len(prs[Len(prs) - 1].content) \in {5, 6}
              /\ prs[Len(prs)].title = "Thank You"
              /\ result.value \in {"odp_bytes", "Error converting to ODP"}
        /\ (pc = "done" /\ ~result.success
            /\ result.value # "Error converting to ODP")
           => /\ csv # "ok"
              /\ prs = <<>>

\* a converted deck whose last generate call raised and which holds a slide
\* of each error list beside a slide of generated bullets
C6_Witness ==
    /\ Finished
    /\ result.success
    /\ raised
    /\ \E i \in 1..Len(prs) : prs[i].content = CanonicalFailure
    /\ \E i \in 1..Len(prs) :
          prs[i].title = "Introduction to Analysis"
          /\ prs[i].content[1] = "Point one."
    /\ prs[Len(prs) - 1].content[1] = "Analysis failed due to error."

\* C4: the chart of a Comparison Plot slide is the requested kind when both
\* columns are numeric, Bar when exactly one of them is, Stacked Bar when
\* neither is, whatever was plotted before; every other column gets one.
C4_ChartKindTable ==
    /\ \A i \in 1..Len(prs) : \A o \in Range(columns) :
          prs[i].title = "Comparison Plot: " \o col \o " vs " \o o =>
              prs[i].chart =
                 CASE is_numeric[col] /\ is_numeric[o]   -> plot_type
                   [] ~is_numeric[col] /\ is_numeric[o]  -> "Bar"
                   [] is_numeric[col] /\ ~is_numeric[o]  -> "Bar"
                   [] ~is_numeric[col] /\ ~is_numeric[o] -> "Stacked Bar"
    /\ Finished =>
          \A o \in Range(columns) \ {col} :
              HasSlide("Comparison Plot: " \o col \o " vs " \o o)

\* a numeric focus column plotted against a numeric and a categorical one
C4_Witness ==
    /\ Finished
    /\ plot_type = "Hexbin"
    /\ \E i \in 1..Len(prs) : prs[i].chart = "Hexbin"
    /\ \E i \in 1..Len(prs) : prs[i].chart = "Bar"

====
